---- MODULE Spec2Model ----
(***************************************************************************)
(* Model of the Bedrock Agent action-group handler                         *)
(* (src/lambda_functions/agent_action_handler/index.py).                   *)
(*                                                                         *)
(* State: the call-records table, the notifications published to the       *)
(* topic, the module-level API-key cache, and an observation of the most   *)
(* recent invocation of lambda_handler (its event, the operation it ran,   *)
(* what that returned or raised, and the external calls it made).          *)
(* One action per branch of lambda_handler; each action is the whole        *)
(* invocation.  External services (Secrets Manager, the NumVerify HTTP API, *)
(* DynamoDB, SNS, the wall clock, uuid4) are inputs drawn from small sets.  *)
(***************************************************************************)
EXTENDS Integers, Sequences, FiniteSets, TLC

VARIABLES store, published, numverify_api_key, last

vars == <<store, published, numverify_api_key, last>>

-----------------------------------------------------------------------------
(* Python values.  A value is tagged with its type so that True, "True",   *)
(* None and "" stay distinct, as they are in the program.                   *)

Str(s) == [t |-> "str", s |-> s]
PyTrue == [t |-> "bool", s |-> "True"]
PyFalse == [t |-> "bool", s |-> "False"]
PyNone == [t |-> "none", s |-> "None"]

\* bool(v): the truth value Python's `if v` / `not v` / `v or d` uses.
Truthy(v) ==
  CASE v.t = "bool" -> v.s = "True"
    [] v.t = "str" -> v.s # ""
    [] OTHER -> FALSE

\* v or d
PyOr(v, d) == IF Truthy(v) THEN v ELSE d

\* A dict keyed by strings is a function; {} is the function of empty domain.
EmptyDict == [k \in {} |-> PyNone]

\* d.get(k, default)
Get(d, k, default) == IF k \in DOMAIN d THEN d[k] ELSE default

\* A dict literal whose key order matters (json.dumps keeps insertion order)
\* is a sequence of <<key, value>> pairs.
Field(pairs, k) == pairs[CHOOSE i \in 1..Len(pairs) : pairs[i][1] = k][2]

-----------------------------------------------------------------------------
(* Strings.                                                                 *)

Lowercase == "abcdefghijklmnopqrstuvwxyz"
Uppercase == "ABCDEFGHIJKLMNOPQRSTUVWXYZ"

\* The upper-case form of each lower-case letter.
UpperOf ==
  [c \in {SubSeq(Lowercase, i, i) : i \in 1..Len(Lowercase)} |->
     LET i == CHOOSE j \in 1..Len(Lowercase) : SubSeq(Lowercase, j, j) = c
     IN  SubSeq(Uppercase, i, i)]

UpperChar(c) == IF c \in DOMAIN UpperOf THEN UpperOf[c] ELSE c

\* str.upper()
RECURSIVE Upper(_)
Upper(s) ==
  IF s = "" THEN ""
  ELSE UpperChar(SubSeq(s, 1, 1)) \o Upper(SubSeq(s, 2, Len(s)))

\* str.startswith(prefix)
StartsWith(s, prefix) ==
  /\ Len(s) >= Len(prefix)
  /\ SubSeq(s, 1, Len(prefix)) = prefix

\* json.dumps of one value (the strings of the model need no escaping).
JsonValue(v) ==
  CASE v.t = "bool" -> (IF v.s = "True" THEN "true" ELSE "false")
    [] v.t = "none" -> "null"
    [] OTHER -> "\"" \o v.s \o "\""

RECURSIVE JsonMembers(_)
JsonMembers(pairs) ==
  IF pairs = <<>> THEN ""
  ELSE "\"" \o Head(pairs)[1] \o "\": " \o JsonValue(Head(pairs)[2])
       \o (IF Len(pairs) > 1 THEN ", " ELSE "") \o JsonMembers(Tail(pairs))

\* json.dumps(result)
JsonDumps(pairs) == "{" \o JsonMembers(pairs) \o "}"

-----------------------------------------------------------------------------
(* Credential cache and the phone-validation operations.                    *)

\* Outcome of an operation: what it raised ("" when it returned), what it
\* returned, and the external calls it made, in order.
NoResult == <<>>

\* One call to an external service: its name, how it ended ("ok" or the
\* exception it raised) and what it carried (the decoded response of the
\* upstream API, the key of a table request, the call_id of a message).
Call(name, outcome, detail) == [call |-> name, outcome |-> outcome, detail |-> detail]

\* requests.get(url, params=params, timeout=10) with raise_for_status and
\* response.json(): the call, with the access_key it sent.
HttpGet(api_key, upstream) ==
  [call |-> "requests.get", outcome |-> upstream.kind, detail |-> upstream.data,
   access_key |-> api_key]

\* get_numverify_api_key without the test of the cache: every call fetches.
get_numverify_api_key_uncached(cache, secret) ==
  IF secret.kind # "ok"
  THEN [raised |-> "ClientError", key |-> PyNone, cache |-> cache,
        calls |-> <<Call("secretsmanager.get_secret_value", "ClientError", EmptyDict)>>]
  ELSE IF "api_key" \notin DOMAIN secret.secret
  THEN [raised |-> "KeyError", key |-> PyNone, cache |-> cache,
        calls |-> <<Call("secretsmanager.get_secret_value", "ok", EmptyDict)>>]
  ELSE [raised |-> "", key |-> secret.secret["api_key"],
        cache |-> secret.secret["api_key"],
        calls |-> <<Call("secretsmanager.get_secret_value", "ok", EmptyDict)>>]

\* get_numverify_api_key(): `cache` is the module global; `secret` is what
\* Secrets Manager answers if it is asked.
get_numverify_api_key(cache, secret) ==
  IF cache # PyNone
  THEN [raised |-> "", key |-> cache, cache |-> cache, calls |-> <<>>]
  ELSE IF secret.kind # "ok"
  THEN [raised |-> "ClientError", key |-> PyNone, cache |-> cache,
        calls |-> <<Call("secretsmanager.get_secret_value", "ClientError", EmptyDict)>>]
  ELSE IF "api_key" \notin DOMAIN secret.secret
  THEN [raised |-> "KeyError", key |-> PyNone, cache |-> cache,
        calls |-> <<Call("secretsmanager.get_secret_value", "ok", EmptyDict)>>]
  ELSE [raised |-> "", key |-> secret.secret["api_key"],
        cache |-> secret.secret["api_key"],
        calls |-> <<Call("secretsmanager.get_secret_value", "ok", EmptyDict)>>]

\* check_spam with the two tests of the verdict in the other order.
SpamVerdictVoipFirst(data) ==
  LET is_valid == Get(data, "valid", PyFalse)
      line_type == Get(data, "line_type", Str("unknown"))
      voip == line_type = Str("voip")
  IN  <<
        <<"is_spam", IF ~voip /\ ~Truthy(is_valid) THEN PyTrue ELSE PyFalse>>,
        <<"is_valid", is_valid>>,
        <<"line_type", PyOr(line_type, Str("unknown"))>>,
        <<"carrier", Get(data, "carrier", Str("unknown"))>>,
        <<"country", Get(data, "country_name", Str("unknown"))>>,
        <<"spam_reason",
          IF voip THEN Str("voip_number_flagged_for_review")
          ELSE IF ~Truthy(is_valid) THEN Str("invalid_number") ELSE Str("")>>
      >>

\* check_spam with a VoIP line marked as spam, as its comment calls it.
SpamVerdictVoipIsSpam(data) ==
  LET is_valid == Get(data, "valid", PyFalse)
      line_type == Get(data, "line_type", Str("unknown"))
  IN  <<
        <<"is_spam", IF ~Truthy(is_valid) \/ line_type = Str("voip")
                     THEN PyTrue ELSE PyFalse>>,
        <<"is_valid", is_valid>>,
        <<"line_type", PyOr(line_type, Str("unknown"))>>,
        <<"carrier", Get(data, "carrier", Str("unknown"))>>,
        <<"country", Get(data, "country_name", Str("unknown"))>>,
        <<"spam_reason",
          IF ~Truthy(is_valid) THEN Str("invalid_number")
          ELSE IF line_type = Str("voip") THEN Str("voip_number_flagged_for_review")
          ELSE Str("")>>
      >>

\* The verdict of check_spam on a decoded upstream response.
SpamVerdict(data) ==
  LET is_valid == Get(data, "valid", PyFalse)
      line_type == Get(data, "line_type", Str("unknown"))
      is_spam == IF ~Truthy(is_valid) THEN PyTrue ELSE PyFalse
      spam_reason ==
        IF ~Truthy(is_valid) THEN Str("invalid_number")
        ELSE IF line_type = Str("voip") THEN Str("voip_number_flagged_for_review")
        ELSE Str("")
  IN  <<
        <<"is_spam", is_spam>>,
        <<"is_valid", is_valid>>,
        <<"line_type", PyOr(line_type, Str("unknown"))>>,
        <<"carrier", Get(data, "carrier", Str("unknown"))>>,
        <<"country", Get(data, "country_name", Str("unknown"))>>,
        <<"spam_reason", spam_reason>>
      >>

\* check_spam failing closed: an upstream failure blocks the caller.
SpamFailClosed(detail) ==
  <<
    <<"is_spam", PyTrue>>,
    <<"is_valid", PyFalse>>,
    <<"line_type", Str("unknown")>>,
    <<"carrier", Str("unknown")>>,
    <<"country", Str("unknown")>>,
    <<"spam_reason", Str("api_error: " \o detail)>>
  >>

\* The except-branch of check_spam: fail open.
SpamFailOpen(detail) ==
  <<
    <<"is_spam", PyFalse>>,
    <<"is_valid", PyTrue>>,
    <<"line_type", Str("unknown")>>,
    <<"carrier", Str("unknown")>>,
    <<"country", Str("unknown")>>,
    <<"spam_reason", Str("api_error: " \o detail)>>
  >>

\* check_spam(phone_number).  `upstream` is the outcome of requests.get and
\* raise_for_status: kind "ok" with the decoded JSON, or a RequestException.
check_spam(phone_number, cache, secret, upstream) ==
  LET k == get_numverify_api_key(cache, secret) IN
  IF k.raised # ""
  THEN [raised |-> k.raised, result |-> NoResult, cache |-> k.cache, calls |-> k.calls]
  ELSE [raised |-> "",
        result |-> IF upstream.kind = "ok" THEN SpamVerdict(upstream.data)
                   ELSE SpamFailOpen(upstream.detail),
        cache |-> k.cache,
        calls |-> k.calls \o <<HttpGet(k.key, upstream)>>]

\* The projection get_caller_info returns.
CallerInfo(data) ==
  <<
    <<"valid", Get(data, "valid", PyFalse)>>,
    <<"country_name", Get(data, "country_name", Str("unknown"))>>,
    <<"location", Get(data, "location", Str("unknown"))>>,
    <<"carrier", Get(data, "carrier", Str("unknown"))>>,
    <<"line_type", Get(data, "line_type", Str("unknown"))>>
  >>

CallerInfoUnknown ==
  <<
    <<"valid", PyFalse>>,
    <<"country_name", Str("unknown")>>,
    <<"location", Str("unknown")>>,
    <<"carrier", Str("unknown")>>,
    <<"line_type", Str("unknown")>>
  >>

\* get_caller_info(phone_number)
get_caller_info(phone_number, cache, secret, upstream) ==
  LET k == get_numverify_api_key(cache, secret) IN
  IF k.raised # ""
  THEN [raised |-> k.raised, result |-> NoResult, cache |-> k.cache, calls |-> k.calls]
  ELSE [raised |-> "",
        result |-> IF upstream.kind = "ok" THEN CallerInfo(upstream.data)
                   ELSE CallerInfoUnknown,
        cache |-> k.cache,
        calls |-> k.calls \o <<HttpGet(k.key, upstream)>>]

-----------------------------------------------------------------------------
(* The call-records table and the notification topic.                       *)
(* The table's primary key is (call_id, timestamp)                          *)
(* (src/stacks/caller_agent_stack.py); `store` maps a key to its item.      *)

RequiredFields == <<"caller_name", "caller_phone", "reason">>

\* The first of body["caller_name"], body["caller_phone"], body["reason"]
\* that raises KeyError, or "" when all three are present.
FirstMissing(body) ==
  IF \A i \in 1..Len(RequiredFields) : RequiredFields[i] \in DOMAIN body THEN ""
  ELSE RequiredFields[CHOOSE i \in 1..Len(RequiredFields) :
         /\ RequiredFields[i] \notin DOMAIN body
         /\ \A j \in 1..(i - 1) : RequiredFields[j] \in DOMAIN body]

\* The item save_call_record builds.
CallItem(body, call_id, timestamp) ==
  [call_id |-> call_id,
   timestamp |-> timestamp,
   caller_name |-> body["caller_name"],
   caller_phone |-> body["caller_phone"],
   reason |-> body["reason"],
   is_spam |-> Get(body, "is_spam", PyFalse),
   call_status |-> IF Truthy(Get(body, "is_spam", PyNone))
                   THEN "spam_blocked" ELSE "completed",
   notification_sent |-> PyFalse]

\* table.put_item(Item=item): unconditional, replaces an item of the same key.
PutItem(st, item) == (<<item.call_id.s, item.timestamp>> :> item) @@ st

\* save_call_record with every field read through body.get.
save_call_record_lenient(body, uuid, now, fault, st) ==
  LET call_id == Get(body, "call_id", Str(uuid))
      filled == [k \in {"caller_name", "caller_phone", "reason"} |-> Str("")] 
      item == CallItem(body @@ filled, call_id, now)
  IN  IF fault
      THEN [raised |-> "ClientError", result |-> NoResult, store |-> st,
            calls |-> <<Call("dynamodb.put_item", "ClientError",
                             <<call_id.s, now>>)>>]
      ELSE [raised |-> "",
            result |-> << <<"success", PyTrue>>, <<"call_id", call_id>> >>,
            store |-> PutItem(st, item),
            calls |-> <<Call("dynamodb.put_item", "ok", <<call_id.s, now>>)>>]

\* save_call_record(body).  `uuid` is what uuid4() gives, `now` the wall
\* clock's reading, `fault` whether the table refuses the request.
save_call_record(body, uuid, now, fault, st) ==
  LET call_id == Get(body, "call_id", Str(uuid))
      timestamp == now
  IN  IF FirstMissing(body) # ""
      THEN [raised |-> "KeyError", result |-> NoResult, store |-> st, calls |-> <<>>]
      ELSE IF fault
      THEN [raised |-> "ClientError", result |-> NoResult, store |-> st,
            calls |-> <<Call("dynamodb.put_item", "ClientError",
                             <<call_id.s, timestamp>>)>>]
      ELSE [raised |-> "",
            result |-> << <<"success", PyTrue>>, <<"call_id", call_id>> >>,
            store |-> PutItem(st, CallItem(body, call_id, timestamp)),
            calls |-> <<Call("dynamodb.put_item", "ok", <<call_id.s, timestamp>>)>>]

\* table.update_item(Key=key, SET notification_sent = True,
\* ConditionExpression attribute_exists(call_id)): what the table answers.
\* DynamoDB rejects an empty string as a key attribute value.
UpdateOutcome(st, key, fault) ==
  IF key[2] = "" THEN "ValidationException"
  ELSE IF fault THEN "ClientError"
  ELSE IF key \notin DOMAIN st THEN "ConditionalCheckFailedException"
  ELSE "ok"

\* update_item without its ConditionExpression: a key that is not there is
\* created, holding the attribute that was set.
UpdateItemUpsert(st, key, fault) ==
  IF key[2] = "" \/ fault THEN st
  ELSE IF key \in DOMAIN st THEN [st EXCEPT ![key].notification_sent = PyTrue]
  ELSE (key :> [call_id |-> Str(key[1]), timestamp |-> key[2],
                notification_sent |-> PyTrue]) @@ st

\* The store after the update: the item is changed when the table accepts
\* the request and the item exists.
UpdateItem(st, key, fault) ==
  IF UpdateOutcome(st, key, fault) = "ok"
  THEN [st EXCEPT ![key].notification_sent = PyTrue]
  ELSE st

\* The update's failure left to propagate.
UpdateFailurePropagates(outcome) == IF outcome = "ok" THEN "" ELSE outcome

\* `except Exception: pass` around the update: what send_notification raises
\* after an update that ended `outcome`.
UpdateFailureSwallowed(outcome) == ""

\* send_notification with the record marked before the message is published.
send_notification_update_first(body, message_id, pubFault, updFault, st, pub) ==
  LET call_id == Get(body, "call_id", Str("unknown"))
      key == <<call_id.s, Get(body, "timestamp", Str("")).s>>
      outcome == UpdateOutcome(st, key, updFault)
      marked == IF call_id # Str("unknown") THEN UpdateItem(st, key, updFault) ELSE st
      updates == IF call_id # Str("unknown")
                 THEN <<Call("dynamodb.update_item", outcome, key)>> ELSE <<>>
  IN  IF FirstMissing(body) # ""
      THEN [raised |-> "KeyError", result |-> NoResult, store |-> st,
            published |-> pub, calls |-> <<>>]
      ELSE IF pubFault
      THEN [raised |-> "ClientError", result |-> NoResult, store |-> marked,
            published |-> pub,
            calls |-> updates \o <<Call("sns.publish", "ClientError", call_id.s)>>]
      ELSE [raised |-> "",
            result |-> << <<"success", PyTrue>>, <<"message_id", Str(message_id)>> >>,
            store |-> marked,
            published |-> pub \cup {call_id.s},
            calls |-> updates \o <<Call("sns.publish", "ok", call_id.s)>>]

\* send_notification without the test of call_id against "unknown".
send_notification_always_updates(body, message_id, pubFault, updFault, st, pub) ==
  LET call_id == Get(body, "call_id", Str("unknown"))
      key == <<call_id.s, Get(body, "timestamp", Str("")).s>>
      outcome == UpdateOutcome(st, key, updFault)
  IN  IF FirstMissing(body) # ""
      THEN [raised |-> "KeyError", result |-> NoResult, store |-> st,
            published |-> pub, calls |-> <<>>]
      ELSE IF pubFault
      THEN [raised |-> "ClientError", result |-> NoResult, store |-> st,
            published |-> pub,
            calls |-> <<Call("sns.publish", "ClientError", call_id.s)>>]
      ELSE [raised |-> "",
            result |-> << <<"success", PyTrue>>, <<"message_id", Str(message_id)>> >>,
            store |-> UpdateItem(st, key, updFault),
            published |-> pub \cup {call_id.s},
            calls |-> <<Call("sns.publish", "ok", call_id.s),
                        Call("dynamodb.update_item", outcome, key)>>]

\* send_notification(body).  `message_id` is the topic's answer to publish,
\* `pubFault` whether publish raises, `updFault` whether the table refuses
\* the follow-up update.
send_notification(body, message_id, pubFault, updFault, st, pub) ==
  LET call_id == Get(body, "call_id", Str("unknown"))
      key == <<call_id.s, Get(body, "timestamp", Str("")).s>>
      outcome == UpdateOutcome(st, key, updFault)
      success == << <<"success", PyTrue>>, <<"message_id", Str(message_id)>> >>
  IN  IF FirstMissing(body) # ""
      THEN [raised |-> "KeyError", result |-> NoResult, store |-> st,
            published |-> pub, calls |-> <<>>]
      ELSE IF pubFault
      THEN [raised |-> "ClientError", result |-> NoResult, store |-> st,
            published |-> pub,
            calls |-> <<Call("sns.publish", "ClientError", call_id.s)>>]
      ELSE IF call_id # Str("unknown")
      THEN [raised |-> UpdateFailureSwallowed(outcome),
            result |-> IF UpdateFailureSwallowed(outcome) = "" THEN success
                       ELSE NoResult,
            store |-> UpdateItem(st, key, updFault),
            published |-> pub \cup {call_id.s},
            calls |-> <<Call("sns.publish", "ok", call_id.s),
                        Call("dynamodb.update_item", outcome, key)>>]
      ELSE [raised |-> "",
            result |-> success,
            store |-> st,
            published |-> pub \cup {call_id.s},
            calls |-> <<Call("sns.publish", "ok", call_id.s)>>]

-----------------------------------------------------------------------------
(* The router.                                                              *)

\* extract_path_parameter(event, param_name)
RECURSIVE FirstParam(_, _)
FirstParam(parameters, param_name) ==
  IF parameters = <<>> THEN ""
  ELSE IF Head(parameters).name = param_name THEN Head(parameters).value
  ELSE FirstParam(Tail(parameters), param_name)

extract_path_parameter(event, param_name) ==
  FirstParam(Get(event, "parameters", <<>>), param_name)

\* The conversion done on the upper-cased value.
CoerceAnyCase(value) ==
  IF Upper(value) = "TRUE" THEN PyTrue
  ELSE IF Upper(value) = "FALSE" THEN PyFalse
  ELSE Str(value)

\* The string-boolean conversion of extract_request_body.
Coerce(value) ==
  IF value \in {"true", "True"} THEN PyTrue
  ELSE IF value \in {"false", "False"} THEN PyFalse
  ELSE Str(value)

RECURSIVE BodyOf(_, _)
BodyOf(properties, body) ==
  IF properties = <<>> THEN body
  ELSE BodyOf(Tail(properties),
              (Head(properties).name :> Coerce(Head(properties).value)) @@ body)

\* extract_request_body(event)
extract_request_body(event) ==
  LET request_body == Get(event, "requestBody", EmptyDict)
      content == Get(request_body, "content", EmptyDict)
      json_content == Get(content, "application/json", EmptyDict)
      properties == Get(json_content, "properties", <<>>)
  IN  BodyOf(properties, EmptyDict)

\* The chain with the method compared as it was sent.
RouteCaseSensitive(event) ==
  LET api_path == Get(event, "apiPath", "")
      http_method == Get(event, "httpMethod", "")
  IN  IF StartsWith(api_path, "/check-spam/") /\ http_method = "GET" THEN "check_spam"
      ELSE IF StartsWith(api_path, "/caller-info/") /\ http_method = "GET"
      THEN "get_caller_info"
      ELSE IF api_path = "/call-record" /\ http_method = "POST" THEN "save_call_record"
      ELSE IF api_path = "/notification" /\ http_method = "POST" THEN "send_notification"
      ELSE "none"

\* The if/elif chain of lambda_handler: the branch an event takes.
Route(event) ==
  LET api_path == Get(event, "apiPath", "")
      http_method == Upper(Get(event, "httpMethod", ""))
  IN  IF StartsWith(api_path, "/check-spam/") /\ http_method = "GET" THEN "check_spam"
      ELSE IF StartsWith(api_path, "/caller-info/") /\ http_method = "GET"
      THEN "get_caller_info"
      ELSE IF api_path = "/call-record" /\ http_method = "POST" THEN "save_call_record"
      ELSE IF api_path = "/notification" /\ http_method = "POST" THEN "send_notification"
      ELSE "none"

\* The else-branch's result with the method as it was sent.
UnknownActionRawMethod(event) ==
  << <<"error", Str("Unknown action: " \o Get(event, "httpMethod", "")
                    \o " " \o Get(event, "apiPath", ""))>> >>

\* The else-branch's result.
UnknownAction(event) ==
  << <<"error", Str("Unknown action: " \o Upper(Get(event, "httpMethod", ""))
                    \o " " \o Get(event, "apiPath", ""))>> >>

HttpStatusOk == 200

\* The response lambda_handler returns for `result`.
Envelope(event, result) ==
  [messageVersion |-> "1.0",
   response |->
     [actionGroup |-> Get(event, "actionGroup", ""),
      apiPath |-> Get(event, "apiPath", ""),
      httpMethod |-> Upper(Get(event, "httpMethod", "")),
      httpStatusCode |-> HttpStatusOk,
      responseBody |-> ("application/json" :> [body |-> JsonDumps(result)])],
   sessionAttributes |-> Get(event, "sessionAttributes", EmptyDict),
   promptSessionAttributes |-> Get(event, "promptSessionAttributes", EmptyDict)]

\* No response: the invocation ended in an uncaught exception.
NoResponse == EmptyDict

\* What is observed of one invocation.
Observe(event, op, arg, out) ==
  [event |-> event,
   op |-> op,
   arg |-> arg,
   raised |-> out.raised,
   result |-> out.result,
   response |-> IF out.raised = "" THEN Envelope(event, out.result) ELSE NoResponse,
   calls |-> out.calls]

-----------------------------------------------------------------------------
(* Inputs.                                                                  *)

\* The most items the table holds in the model.
MaxRecords == 2

\* Marks a field left out when an input is built; never a value of the model.
Absent == [t |-> "absent", s |-> ""]

Methods == {"GET", "get", "POST", "Post", "PUT"}

Paths ==
  {"/check-spam/5551234567", "/check-spam", "/caller-info/5551234567",
   "/call-record", "/notification", "/notification/x"}

ParameterLists ==
  { <<>>,
    <<[name |-> "phoneNumber", value |-> "5551234567"]>>,
    <<[name |-> "countryCode", value |-> "1"],
      [name |-> "phoneNumber", value |-> "5551234567"],
      [name |-> "phoneNumber", value |-> "666"]>> }

\* Readings of the wall clock, as isoformat() gives them.  The clock is not
\* monotonic and two execution environments do not share one.
Timestamps == {"2026-01-01T00:00:00+00:00", "2026-01-01T00:00:01+00:00"}

\* Identifiers uuid4() gives.
UUIDs == {"uuid-1"}

\* Identifiers the topic gives to a published message.
MessageIds == {"msg-1"}

Prop(name, value) ==
  IF value = Absent THEN <<>> ELSE <<[name |-> name, value |-> value.s]>>

\* The properties list of a request body, each field present or left out.
Properties(caller_name, caller_phone, reason, call_id, timestamp, is_spam) ==
  Prop("caller_name", caller_name) \o Prop("caller_phone", caller_phone)
    \o Prop("reason", reason) \o Prop("call_id", call_id)
    \o Prop("timestamp", timestamp) \o Prop("is_spam", is_spam)

Opt(values) == {Absent} \cup {Str(v) : v \in values}

\* Bodies that lack one of the three required fields.
LackingBodies ==
  { Properties(Absent, Str("555"), Str("hi"), Str("abc"), Absent, Absent),
    Properties(Str("Bob"), Absent, Str("hi"), Str("abc"), Absent, Absent),
    Properties(Str("Bob"), Str("555"), Absent, Str("abc"), Absent, Absent),
    Properties(Absent, Absent, Absent, Absent, Absent, Absent) }

\* Bodies of POST /call-record.  A body without call_id is sent without
\* is_spam as well.
SaveBodies ==
  { Properties(Str("Bob"), Str("555"), Str("hi"), Str("abc"), Absent, s) :
      s \in Opt({"true", "false", "no"}) }
    \cup { Properties(Str("Bob"), Str("555"), Str("hi"), Absent, Absent, Absent) }
    \cup LackingBodies

\* Bodies of POST /notification.
NotifyBodies ==
  { Properties(Str("Bob"), Str("555"), Str("hi"), c, t, Absent) :
      c \in Opt({"abc", "unknown"}), t \in Opt(Timestamps) }
    \cup LackingBodies

EventOf(method, path, parameters) ==
  [apiPath |-> path, httpMethod |-> method, parameters |-> parameters,
   actionGroup |-> "CallerManagementActions"]

EventWithBody(method, path, properties) ==
  [apiPath |-> path, httpMethod |-> method,
   actionGroup |-> "CallerManagementActions",
   requestBody |-> [content |-> ("application/json" :> [properties |-> properties])]]

\* Events of the two store routes.
StoreEvents ==
  { EventWithBody("POST", "/call-record", b) : b \in SaveBodies }
    \cup { EventWithBody("POST", "/notification", b) : b \in NotifyBodies }

\* Events of the two phone routes.
PhoneEvents ==
  { EventOf("GET", p, ps) :
      p \in {"/check-spam/5551234567", "/caller-info/5551234567"},
      ps \in {l \in ParameterLists : Len(l) # 1} }

\* Events of every method and path, without a body and with one.
Events ==
  { EventOf(m, p, ps) : m \in Methods, p \in Paths, ps \in ParameterLists }
    \cup { EventWithBody(m, p, b) : m \in {"POST", "Post", "GET"},
             p \in {"/call-record", "/notification"},
             b \in { Properties(Str("Bob"), Str("555"), Str("hi"), Str("abc"),
                                Absent, Absent) } }
    \cup { [actionGroup |-> "CallerManagementActions"] }

\* Values of a body property: the four that are converted and others.
PropertyValues == {"true", "True", "false", "False", "TRUE", "yes", "1", ""}

\* A POST event whose requestBody is `request_body`, or is left out.
EventWithRequestBody(path, request_body) ==
  [apiPath |-> path, httpMethod |-> "POST",
   actionGroup |-> "CallerManagementActions"]
    @@ (IF request_body = Absent THEN EmptyDict ELSE [requestBody |-> request_body])

\* Request bodies with a level of the nesting left out.
PartialRequestBodies ==
  { Absent,
    EmptyDict,
    [content |-> EmptyDict],
    [content |-> ("application/json" :> EmptyDict)],
    [content |-> ("application/json" :> [properties |-> <<>>])] }

\* Events of the two store routes that vary the property values, repeat a
\* property name, or leave out a level of the request body.
BodyEvents ==
  { EventWithBody("POST", "/call-record",
                  Properties(Str("Bob"), Str("555"), Str("hi"), Str("abc"),
                             Absent, Str(v))) : v \in PropertyValues }
    \cup { EventWithBody("POST", "/call-record",
                         Properties(Str("Bob"), Str("555"), Str("hi"), Str("abc"),
                                    Absent, Str("false"))
                           \o <<[name |-> "is_spam", value |-> "true"]>>) }
    \cup { EventWithBody("POST", "/notification",
                         Properties(Str("Bob"), Str("555"), Str(v), Str("abc"),
                                    Absent, Absent)) : v \in {"hi", "true", "False"} }
    \cup { EventWithRequestBody(p, rb) :
             p \in {"/call-record", "/notification"}, rb \in PartialRequestBodies }

\* What Secrets Manager answers: an error, a secret without the api_key
\* field, or a secret holding a key.
SecretOutcomes ==
  { [kind |-> "error", secret |-> EmptyDict],
    [kind |-> "ok", secret |-> EmptyDict] }
    \cup { [kind |-> "ok", secret |-> ("api_key" :> Str(k))] : k \in {"key-1", "key-2"} }

Entry(k, v) == IF v = Absent THEN EmptyDict ELSE (k :> v)

\* Decoded upstream responses: each field present, null or left out.
UpstreamData ==
  { Entry("valid", v) @@ Entry("line_type", lt) @@ Entry("carrier", o)
      @@ Entry("country_name", o) @@ Entry("location", o) :
      v \in {Absent, PyTrue, PyFalse, PyNone},
      lt \in {Absent, Str("voip"), Str("mobile"), Str(""), PyNone},
      o \in {Absent, Str("known"), PyNone} }

\* A RequestException of requests.get / raise_for_status, with its message.
UpstreamFailures ==
  { [kind |-> "Timeout", data |-> EmptyDict, detail |-> "Read timed out."],
    [kind |-> "ConnectionError", data |-> EmptyDict, detail |-> "Connection refused"],
    [kind |-> "HTTPError", data |-> EmptyDict, detail |-> "500 Server Error"] }

\* What requests.get / raise_for_status give: a decoded response or a failure.
UpstreamOutcomes ==
  { [kind |-> "ok", data |-> d, detail |-> ""] : d \in UpstreamData }
    \cup UpstreamFailures

\* One answer of each kind, for the runs that vary the events instead.
FewSecretOutcomes ==
  { [kind |-> "error", secret |-> EmptyDict],
    [kind |-> "ok", secret |-> ("api_key" :> Str("key-1"))] }

FewUpstreamOutcomes ==
  { [kind |-> "ok", detail |-> "",
     data |-> [valid |-> PyTrue, line_type |-> Str("mobile")]],
    [kind |-> "Timeout", data |-> EmptyDict, detail |-> "Read timed out."] }

-----------------------------------------------------------------------------
(* The state machine.                                                       *)

EmptyStore == [k \in {} |-> EmptyDict]

Init ==
  /\ store = EmptyStore
  /\ published = {}
  /\ numverify_api_key = PyNone
  /\ last = [event |-> EmptyDict, op |-> "init", arg |-> PyNone, raised |-> "",
             result |-> NoResult, response |-> NoResponse, calls |-> <<>>]

\* GET /check-spam/{phoneNumber}
HandleCheckSpam(event, secret, upstream) ==
  /\ Route(event) = "check_spam"
  /\ LET phone_number == extract_path_parameter(event, "phoneNumber")
         out == check_spam(phone_number, numverify_api_key, secret, upstream)
     IN  /\ numverify_api_key' = out.cache
         /\ last' = Observe(event, "check_spam", Str(phone_number), out)
  /\ UNCHANGED <<store, published>>

\* GET /caller-info/{phoneNumber}
HandleCallerInfo(event, secret, upstream) ==
  /\ Route(event) = "get_caller_info"
  /\ LET phone_number == extract_path_parameter(event, "phoneNumber")
         out == get_caller_info(phone_number, numverify_api_key, secret, upstream)
     IN  /\ numverify_api_key' = out.cache
         /\ last' = Observe(event, "get_caller_info", Str(phone_number), out)
  /\ UNCHANGED <<store, published>>

\* POST /call-record
HandleCallRecord(event, uuid, now, fault) ==
  /\ Route(event) = "save_call_record"
  /\ LET body == extract_request_body(event)
         out == save_call_record(body, uuid, now, fault, store)
     IN  \* uuid4() gives an identifier no item carries yet; it is used
         \* only when the body has no call_id
         /\ "call_id" \in DOMAIN body \/ \A k \in DOMAIN store : k[1] # uuid
         /\ Cardinality(DOMAIN out.store) <= MaxRecords
         /\ store' = out.store
         /\ last' = Observe(event, "save_call_record", body, out)
  /\ UNCHANGED <<published, numverify_api_key>>

\* POST /notification
HandleNotification(event, message_id, pubFault, updFault) ==
  /\ Route(event) = "send_notification"
  /\ LET body == extract_request_body(event)
         out == send_notification(body, message_id, pubFault, updFault,
                                  store, published)
     IN  /\ store' = out.store
         /\ published' = out.published
         /\ last' = Observe(event, "send_notification", body, out)
  /\ UNCHANGED numverify_api_key

\* Any other method and path.
HandleUnknown(event) ==
  /\ Route(event) = "none"
  /\ last' = Observe(event, "none", PyNone,
                     [raised |-> "", result |-> UnknownAction(event), calls |-> <<>>])
  /\ UNCHANGED <<store, published, numverify_api_key>>

\* lambda_handler(event, context), over every event and a few answers of the
\* services.
Next ==
  \E event \in Events :
    \/ \E secret \in FewSecretOutcomes, upstream \in FewUpstreamOutcomes :
         HandleCheckSpam(event, secret, upstream)
    \/ \E secret \in FewSecretOutcomes, upstream \in FewUpstreamOutcomes :
         HandleCallerInfo(event, secret, upstream)
    \/ \E uuid \in UUIDs, now \in Timestamps, fault \in BOOLEAN :
         HandleCallRecord(event, uuid, now, fault)
    \/ \E message_id \in MessageIds, pubFault \in BOOLEAN, updFault \in BOOLEAN :
         HandleNotification(event, message_id, pubFault, updFault)
    \/ HandleUnknown(event)

Spec == Init /\ [][Next]_vars

\* The two store routes, over every body of SaveBodies and NotifyBodies.
NextStore ==
  \E event \in StoreEvents :
    \/ \E uuid \in UUIDs, now \in Timestamps, fault \in BOOLEAN :
         HandleCallRecord(event, uuid, now, fault)
    \/ \E message_id \in MessageIds, pubFault \in BOOLEAN, updFault \in BOOLEAN :
         HandleNotification(event, message_id, pubFault, updFault)

SpecStore == Init /\ [][NextStore]_vars

\* The two phone routes, over every answer of the secret store and of the
\* upstream API.
NextPhone ==
  \E event \in PhoneEvents :
    \/ \E secret \in SecretOutcomes, upstream \in UpstreamOutcomes :
         HandleCheckSpam(event, secret, upstream)
    \/ \E secret \in SecretOutcomes, upstream \in UpstreamOutcomes :
         HandleCallerInfo(event, secret, upstream)

SpecPhone == Init /\ [][NextPhone]_vars

-----------------------------------------------------------------------------
(* Properties.                                                              *)

\* The calls of an observed invocation that went to `name`.
CallsTo(l, name) ==
  {l.calls[i] : i \in {j \in 1..Len(l.calls) : l.calls[j].call = name}}

\* The body lacks caller_name, caller_phone or reason.
Lacks(body) ==
  \E f \in {"caller_name", "caller_phone", "reason"} : f \notin DOMAIN body

\* send_notification returned success for a body that carries call_id.
NotifiedWithCallId(l) ==
  /\ l.op = "send_notification"
  /\ l.raised = ""
  /\ ~Lacks(l.arg)
  /\ "call_id" \in DOMAIN l.arg

\* C1: after a send_notification that returned success for a body carrying
\* caller_name, caller_phone, reason and call_id = c, every stored record
\* with call_id c has notification_sent = true.  Stated for the invocations
\* in which the table did not refuse the update (no throttling, no outage).
C1_NotifiedRecordIsMarked ==
  (/\ NotifiedWithCallId(last)
   /\ \A c \in CallsTo(last, "dynamodb.update_item") : c.outcome # "ClientError")
  => \A k \in DOMAIN store :
       k[1] = last.arg["call_id"].s => store[k].notification_sent = PyTrue

\* C2: whenever the publish succeeded, send_notification returns
\* success = true with the topic's message identifier, inside a 200
\* envelope, whatever the outcome of the record update.
C2_PublishedMeansSuccess ==
  (/\ last.op = "send_notification"
   /\ \E c \in CallsTo(last, "sns.publish") : c.outcome = "ok")
  => /\ last.raised = ""
     /\ Len(last.result) = 2
     /\ last.result[1] = <<"success", PyTrue>>
     /\ last.result[2][1] = "message_id"
     /\ last.result[2][2].t = "str"
     /\ last.result[2][2].s \in MessageIds
     /\ last.response # NoResponse
     /\ last.response.response.httpStatusCode = 200

\* C2 witness: the update was refused by the table and the call returned.
C2_Witness ==
  /\ last.op = "send_notification"
  /\ last.raised = ""
  /\ \E c \in CallsTo(last, "dynamodb.update_item") : c.outcome = "ClientError"
  /\ \E c \in CallsTo(last, "sns.publish") : c.outcome = "ok"

\* A record's notification_sent went from false to true in a
\* send_notification that published and then updated that record.
MarkedBySend(k) ==
  /\ store[k].notification_sent = PyFalse
  /\ store'[k].notification_sent = PyTrue
  /\ last'.op = "send_notification"
  /\ last'.calls = <<Call("sns.publish", "ok", k[1]),
                     Call("dynamodb.update_item", "ok", k)>>

\* A record's notification_sent went from true to false in a
\* save_call_record that wrote its key again.
ResetBySave(k) ==
  /\ store[k].notification_sent = PyTrue
  /\ store'[k].notification_sent = PyFalse
  /\ last'.op = "save_call_record"
  /\ last'.calls = <<Call("dynamodb.put_item", "ok", k)>>

\* C3 as claimed: notification_sent starts false when a record is created,
\* changes only from false to true and only by send_notification's update
\* after the publish, and once true never becomes false again.
C3_SentOnlyRises ==
  [][\A k \in DOMAIN store' :
       IF k \notin DOMAIN store
       THEN store'[k].notification_sent = PyFalse
       ELSE store'[k].notification_sent # store[k].notification_sent
            => MarkedBySend(k)]_vars

\* C3 as amended: notification_sent starts false when a record is written,
\* goes from false to true only by send_notification's update after the
\* publish, and goes back to false only when save_call_record writes the same
\* (call_id, timestamp) key again, which replaces the record.
C3_SentRisesUnlessRewritten ==
  [][\A k \in DOMAIN store' :
       IF k \notin DOMAIN store
       THEN store'[k].notification_sent = PyFalse
       ELSE store'[k].notification_sent # store[k].notification_sent
            => MarkedBySend(k) \/ ResetBySave(k)]_vars

\* C3 witness: a send_notification has just marked a record.
C3_Witness ==
  /\ last.op = "send_notification"
  /\ \E k \in DOMAIN store :
       /\ store[k].notification_sent = PyTrue
       /\ Call("dynamodb.update_item", "ok", k) \in CallsTo(last, "dynamodb.update_item")

\* The upstream call of the observed invocation failed.
UpstreamFailed(l) ==
  \E c \in CallsTo(l, "requests.get") :
    c.outcome \in {"Timeout", "ConnectionError", "HTTPError"}

\* C4: when the upstream call fails, check_spam does not raise and returns
\* is_spam = false, is_valid = true and a spam_reason that begins with
\* "api_error: ".
C4_FailOpen ==
  (last.op = "check_spam" /\ UpstreamFailed(last))
  => /\ last.raised = ""
     /\ Field(last.result, "is_spam") = PyFalse
     /\ Field(last.result, "is_valid") = PyTrue
     /\ Field(last.result, "spam_reason").t = "str"
     /\ StartsWith(Field(last.result, "spam_reason").s, "api_error: ")

\* C4 witness: check_spam has run into a timeout.
C4_Witness ==
  /\ last.op = "check_spam"
  /\ \E c \in CallsTo(last, "requests.get") : c.outcome = "Timeout"
  /\ last.raised = ""

\* The decoded upstream response of the observed invocation.
UpstreamResponses(l) ==
  {c.detail : c \in {d \in CallsTo(l, "requests.get") : d.outcome = "ok"}}

\* C5: for every upstream response whose valid flag is false or absent,
\* check_spam returns is_spam = true and spam_reason = "invalid_number",
\* whatever the line_type.
C5_InvalidIsSpam ==
  last.op = "check_spam" =>
    \A d \in UpstreamResponses(last) :
      ("valid" \notin DOMAIN d \/ d["valid"] = PyFalse)
      => /\ last.raised = ""
         /\ Field(last.result, "is_spam") = PyTrue
         /\ Field(last.result, "spam_reason") = Str("invalid_number")

\* C5 witness: an invalid VoIP number has been checked.
C5_Witness ==
  /\ last.op = "check_spam"
  /\ \E d \in UpstreamResponses(last) :
       /\ "valid" \in DOMAIN d /\ d["valid"] = PyFalse
       /\ "line_type" \in DOMAIN d /\ d["line_type"] = Str("voip")
  /\ Field(last.result, "is_spam") = PyTrue

\* C6: for every upstream response with valid = true, check_spam returns
\* is_spam = false, with spam_reason "voip_number_flagged_for_review" when
\* line_type is "voip" and "" for every other line_type.
C6_ValidIsNotSpam ==
  last.op = "check_spam" =>
    \A d \in UpstreamResponses(last) :
      ("valid" \in DOMAIN d /\ d["valid"] = PyTrue)
      => /\ last.raised = ""
         /\ Field(last.result, "is_spam") = PyFalse
         /\ Field(last.result, "spam_reason") =
              IF "line_type" \in DOMAIN d /\ d["line_type"] = Str("voip")
              THEN Str("voip_number_flagged_for_review") ELSE Str("")

\* C6 witness: a valid VoIP number has been checked.
C6_Witness ==
  /\ last.op = "check_spam"
  /\ \E d \in UpstreamResponses(last) :
       /\ "valid" \in DOMAIN d /\ d["valid"] = PyTrue
       /\ "line_type" \in DOMAIN d /\ d["line_type"] = Str("voip")
  /\ Field(last.result, "spam_reason") = Str("voip_number_flagged_for_review")

\* C7: a save_call_record request whose body lacks caller_name, caller_phone
\* or reason ends in a raised error, gets no response envelope, calls the
\* table not at all and leaves the store as it was.
C7_LackingSaveWritesNothing ==
  [][(last'.op = "save_call_record" /\ Lacks(last'.arg))
     => /\ last'.raised = "KeyError"
        /\ last'.response = NoResponse
        /\ last'.calls = <<>>
        /\ store' = store]_vars

\* C7 witness: a lacking save request has failed against a table that holds
\* a record.
C7_Witness ==
  /\ last.op = "save_call_record"
  /\ Lacks(last.arg)
  /\ "caller_phone" \in DOMAIN last.arg
  /\ last.raised = "KeyError"
  /\ store # EmptyStore

\* C8: every stored record has call_status "spam_blocked" exactly when its
\* stored is_spam is true and "completed" exactly when it is false.
C8_StatusFollowsIsSpam ==
  \A k \in DOMAIN store :
    /\ store[k].call_status = "spam_blocked" <=> store[k].is_spam = PyTrue
    /\ store[k].call_status = "completed" <=> store[k].is_spam = PyFalse

\* The method, upper-cased, and the path of an event.
MethodOf(event) == Upper(Get(event, "httpMethod", ""))
PathOf(event) == Get(event, "apiPath", "")

\* The four rows of the dispatch table.
IsCheckSpam(event) ==
  MethodOf(event) = "GET" /\ StartsWith(PathOf(event), "/check-spam/")
IsCallerInfo(event) ==
  MethodOf(event) = "GET" /\ StartsWith(PathOf(event), "/caller-info/")
IsCallRecord(event) == MethodOf(event) = "POST" /\ PathOf(event) = "/call-record"
IsNotification(event) == MethodOf(event) = "POST" /\ PathOf(event) = "/notification"

\* C9: a request that matches none of the four routes does not raise, calls
\* no service and changes no state, and gets a 200 envelope whose body is
\* {"error": "Unknown action: <METHOD> <path>"}.
C9_UnknownRouteIsData ==
  [][(/\ ~IsCheckSpam(last'.event) /\ ~IsCallerInfo(last'.event)
      /\ ~IsCallRecord(last'.event) /\ ~IsNotification(last'.event))
     => /\ last'.op = "none"
        /\ last'.raised = ""
        /\ last'.calls = <<>>
        /\ UNCHANGED <<store, published, numverify_api_key>>
        /\ last'.response # NoResponse
        /\ last'.response.response.httpStatusCode = 200
        /\ last'.response.response.responseBody["application/json"].body =
             "{\"error\": \"Unknown action: " \o MethodOf(last'.event) \o " "
               \o PathOf(last'.event) \o "\"}"]_vars

\* C9 witness: a lower-case GET of a path that only lacks the final slash
\* has been answered, after the table and the cache were filled.
C9_Witness ==
  /\ last.op = "none"
  /\ "httpMethod" \in DOMAIN last.event /\ last.event.httpMethod = "get"
  /\ last.event.apiPath = "/check-spam"
  /\ store # EmptyStore
  /\ numverify_api_key # PyNone

\* The value of the first parameter named phoneNumber, "" when there is none.
FirstPhoneNumber(event) ==
  LET ps == Get(event, "parameters", <<>>)
      at == {i \in 1..Len(ps) : ps[i].name = "phoneNumber"}
  IN  IF at = {} THEN ""
      ELSE ps[CHOOSE i \in at : \A j \in at : i <= j].value

\* The services each operation calls.
ServicesOf(op) ==
  CASE op \in {"check_spam", "get_caller_info"} ->
         {"secretsmanager.get_secret_value", "requests.get"}
    [] op = "save_call_record" -> {"dynamodb.put_item"}
    [] op = "send_notification" -> {"sns.publish", "dynamodb.update_item"}
    [] OTHER -> {}

\* C10: the router runs the operation the dispatch table gives, the method
\* compared case-insensitively; the two GET routes pass the first
\* phoneNumber parameter ("" when there is none), the two POST routes pass
\* the extracted body; only that operation's services are called.
C10_DispatchTable ==
  last.op # "init" =>
    /\ IsCheckSpam(last.event)
         => last.op = "check_spam" /\ last.arg = Str(FirstPhoneNumber(last.event))
    /\ IsCallerInfo(last.event)
         => last.op = "get_caller_info"
            /\ last.arg = Str(FirstPhoneNumber(last.event))
    /\ IsCallRecord(last.event) => last.op = "save_call_record"
    /\ IsNotification(last.event) => last.op = "send_notification"
    /\ \A i \in 1..Len(last.calls) : last.calls[i].call \in ServicesOf(last.op)

\* C10 witness: a lower-case get of /check-spam/ with three parameters has
\* run check_spam on the first phoneNumber.
C10_Witness ==
  /\ last.op = "check_spam"
  /\ last.event.httpMethod = "get"
  /\ Len(Get(last.event, "parameters", <<>>)) = 3
  /\ last.arg = Str("5551234567")
  /\ \E c \in CallsTo(last, "requests.get") : c.outcome = "ok"

\* C11: once the API key is cached, which a successful fetch from the
\* secret store does, no later check_spam or get_caller_info asks the secret
\* store again, the cache keeps its value, and that value is the access_key
\* every later upstream call sends.
C11_KeyFetchedOnce ==
  [][numverify_api_key # PyNone
     => /\ numverify_api_key' = numverify_api_key
        /\ CallsTo(last', "secretsmanager.get_secret_value") = {}
        /\ \A c \in CallsTo(last', "requests.get") :
             c.access_key = numverify_api_key]_vars

\* C11 witness: get_caller_info has called upstream with the cached key
\* "key-2" and without asking the secret store.
C11_Witness ==
  /\ last.op = "get_caller_info"
  /\ Len(last.calls) = 1
  /\ last.calls[1].call = "requests.get"
  /\ last.calls[1].access_key = Str("key-2")
  /\ numverify_api_key = Str("key-2")

\* The two store routes, over the events of BodyEvents.
NextBody ==
  \E event \in BodyEvents :
    \/ \E uuid \in UUIDs, now \in Timestamps, fault \in BOOLEAN :
         HandleCallRecord(event, uuid, now, fault)
    \/ \E message_id \in MessageIds, pubFault \in BOOLEAN, updFault \in BOOLEAN :
         HandleNotification(event, message_id, pubFault, updFault)

SpecBody == Init /\ [][NextBody]_vars

\* The properties list an event carries; none when a level is left out.
RawProperties(event) ==
  IF /\ "requestBody" \in DOMAIN event
     /\ "content" \in DOMAIN event.requestBody
     /\ "application/json" \in DOMAIN event.requestBody.content
     /\ "properties" \in DOMAIN event.requestBody.content["application/json"]
  THEN event.requestBody.content["application/json"].properties
  ELSE <<>>

\* The value of the last property named n.
LastValue(props, n) ==
  LET at == {i \in 1..Len(props) : props[i].name = n}
  IN  props[CHOOSE i \in at : \A j \in at : j <= i].value

\* C12: the body the operation receives maps each property name to its
\* value; exactly "true" and "True" become true, "false" and "False" become
\* false, every other value stays the string it was; an event without
\* requestBody, content, application/json or properties gives the empty body.
C12_BodyExtraction ==
  last.op \in {"save_call_record", "send_notification"} =>
    LET props == RawProperties(last.event) IN
    /\ DOMAIN last.arg = {props[i].name : i \in 1..Len(props)}
    /\ \A n \in DOMAIN last.arg :
         LET v == LastValue(props, n) IN
         last.arg[n] = CASE v \in {"true", "True"} -> PyTrue
                         [] v \in {"false", "False"} -> PyFalse
                         [] OTHER -> Str(v)

\* C12 witness: a save whose is_spam was sent as "TRUE" has stored that
\* string.
C12_Witness ==
  /\ last.op = "save_call_record"
  /\ last.raised = ""
  /\ "is_spam" \in DOMAIN last.arg
  /\ last.arg["is_spam"] = Str("TRUE")
  /\ \E k \in DOMAIN store : store[k].is_spam = Str("TRUE")

\* C12 witness of the empty body: a request body without content reached
\* save_call_record as {}.
C12_EmptyBodyReached ==
  /\ last.op = "save_call_record"
  /\ "requestBody" \in DOMAIN last.event
  /\ last.event.requestBody = EmptyDict
  /\ last.arg = EmptyDict
  /\ last.raised = "KeyError"

\* The fields of a phone result that are to be strings, each with the
\* upstream field it is read from, and the fields that are to be booleans.
StringFields ==
  { <<"line_type", "line_type">>, <<"carrier", "carrier">>,
    <<"country", "country_name">>, <<"country_name", "country_name">>,
    <<"location", "location">> }
ValidityFields == {"is_valid", "valid"}

\* C13: in every result of check_spam and get_caller_info, line_type,
\* carrier, country/country_name and location are strings, "unknown" when the
\* upstream response does not supply them, and the validity flag is a
\* boolean, false when the upstream response does not supply it; no field is
\* null.
C13_NoNullFields ==
  (last.op \in {"check_spam", "get_caller_info"} /\ last.raised = "") =>
    \A i \in 1..Len(last.result) :
      LET name == last.result[i][1]
          value == last.result[i][2]
      IN  /\ value.t # "none"
          /\ \A f \in StringFields : f[1] = name =>
               /\ value.t = "str"
               /\ \A d \in UpstreamResponses(last) :
                    f[2] \notin DOMAIN d => value = Str("unknown")
          /\ name \in ValidityFields =>
               /\ value.t = "bool"
               /\ \A d \in UpstreamResponses(last) :
                    "valid" \notin DOMAIN d => value = PyFalse

\* C14: send_notification asks the table for the update only after a
\* publish that succeeded; when the body lacks a required field or the
\* publish fails, it raises, returns no envelope and asks the table for
\* nothing; so every record with notification_sent = true has its call_id
\* among the published notifications.
C14_UpdateOnlyAfterPublish ==
  /\ \A k \in DOMAIN store :
       store[k].notification_sent = PyTrue => k[1] \in published
  /\ last.op = "send_notification" =>
       /\ \A i \in 1..Len(last.calls) :
            last.calls[i].call = "dynamodb.update_item"
            => /\ i = 2
               /\ last.calls[1].call = "sns.publish"
               /\ last.calls[1].outcome = "ok"
               /\ last.calls[1].detail = last.calls[i].detail[1]
       /\ (Lacks(last.arg) \/ \E c \in CallsTo(last, "sns.publish") : c.outcome # "ok")
          => /\ last.raised # ""
             /\ last.response = NoResponse
             /\ CallsTo(last, "dynamodb.update_item") = {}

\* C14 witness: the publish failed for a body that names a stored, unmarked
\* record by call_id and timestamp.
C14_Witness ==
  /\ last.op = "send_notification"
  /\ last.raised = "ClientError"
  /\ \E c \in CallsTo(last, "sns.publish") : c.outcome = "ClientError"
  /\ "call_id" \in DOMAIN last.arg /\ "timestamp" \in DOMAIN last.arg
  /\ <<last.arg["call_id"].s, last.arg["timestamp"].s>> \in DOMAIN store
  /\ store[<<last.arg["call_id"].s, last.arg["timestamp"].s>>].notification_sent
       = PyFalse
  /\ last.arg["call_id"].s \notin published

\* The body's call_id is left out or is "unknown".
NoCallId(body) ==
  "call_id" \in DOMAIN body => body["call_id"] = Str("unknown")

\* C15: send_notification creates no record and changes no field other than
\* notification_sent: the keys of the store and every other field of every
\* record stay as they were; when call_id is left out or is "unknown" the
\* table is not asked at all.
C15_NotificationFrame ==
  [][last'.op = "send_notification"
     => /\ DOMAIN store' = DOMAIN store
        /\ \A k \in DOMAIN store :
             [store'[k] EXCEPT !.notification_sent = store[k].notification_sent]
               = store[k]
        /\ \A i \in 1..Len(last'.calls) : last'.calls[i].call # "dynamodb.put_item"
        /\ NoCallId(last'.arg)
           => /\ store' = store
              /\ \A i \in 1..Len(last'.calls) :
                   last'.calls[i].call \notin {"dynamodb.update_item",
                                               "dynamodb.put_item"}]_vars

\* C15 witness: a notification with call_id "unknown" and a timestamp has
\* returned while the table holds two records.
C15_Witness ==
  /\ last.op = "send_notification"
  /\ last.raised = ""
  /\ "call_id" \in DOMAIN last.arg /\ last.arg["call_id"] = Str("unknown")
  /\ "timestamp" \in DOMAIN last.arg
  /\ Cardinality(DOMAIN store) = 2

\* C15 witness of the update: a notification has marked one of two records
\* that carry the same call_id.
C15_MarkedOneOfTwo ==
  /\ last.op = "send_notification"
  /\ \E k1, k2 \in DOMAIN store :
       /\ k1 # k2 /\ k1[1] = k2[1]
       /\ store[k1].notification_sent = PyTrue
       /\ store[k2].notification_sent = PyFalse
       /\ Call("dynamodb.update_item", "ok", k1) \in CallsTo(last, "dynamodb.update_item")

====
